---- MODULE Spec2Model ----
(***************************************************************************)
(* Mortgage calculator, renderer process (src/renderer.js): the            *)
(* amortization engine calculateMortgage, the input validation             *)
(* validateInputs, the calculate / add-to-comparison / remove handlers     *)
(* and the comparison store comparisonMortgages.                           *)
(*                                                                         *)
(* Numbers.  A JavaScript number is an IEEE-754 binary floating-point      *)
(* value: NaN, +/-Infinity, or a finite value m * 2^e whose significand    *)
(* has a fixed number of bits, every arithmetic result being rounded to    *)
(* nearest, ties to even.  The model keeps that structure with a           *)
(* significand of Prec bits and binary exponents in -MinExp .. MaxExp      *)
(* (JavaScript: 53, 1022, 1023), so that rounding, absorption (1 + r = 1), *)
(* overflow to Infinity and gradual underflow happen as they do in the     *)
(* program, at proportionally smaller magnitudes.  The two zeros are not   *)
(* distinguished (the program compares with === and <, which do not tell   *)
(* them apart).  A value read back from JSON can also be null.             *)
(***************************************************************************)
EXTENDS Integers, Naturals, Sequences, FiniteSets, TLC

\* Bits of the significand.
Prec == 8
\* Largest binary exponent of a finite value: finite values are below 2^(MaxExp+1).
MaxExp == 15
\* The least normal value is 2^(-MinExp).
MinExp == 14

\* 2^n, 1 for n <= 0
Pow2(n) == IF n <= 0 THEN 1 ELSE 2 ^ n

\* Number of bits of n: the least L with n < 2^L
BitLen(n) == IF n <= 0 THEN 0 ELSE CHOOSE L \in 1..30 : 2 ^ (L - 1) <= n /\ n < 2 ^ L

Abs(i) == IF i < 0 THEN -i ELSE i

Sgn(i) == IF i < 0 THEN -1 ELSE IF i > 0 THEN 1 ELSE 0

\* Exponent of the unit in the last place of the least normal value; every
\* finite value is m * 2^e with e >= EMin.
EMin == 1 - MinExp - Prec

\* Largest e of a finite value m * 2^e with a Prec-bit m.
EMax == MaxExp + 1 - Prec

NaN == [k |-> "nan", m |-> 0, e |-> 0]

Infinity == [k |-> "inf", m |-> 1, e |-> 0]

null == [k |-> "null", m |-> 0, e |-> 0]

Zero == [k |-> "num", m |-> 0, e |-> 0]

\* The one element of a singleton set.  { e : v \in {x} } is the value of e
\* with v standing for the value of x, computed once.
Only(S) == CHOOSE v \in S : TRUE

\* Round below, given the exponent e1 of the result's last place.
RoundAt(s, M, E, sticky, e1) ==
  LET sh   == e1 - E
      q    == IF sh <= 0 THEN M * Pow2(-sh) ELSE M \div Pow2(sh)
      rem  == IF sh <= 0 THEN 0 ELSE M % Pow2(sh)
      half == IF sh <= 0 THEN 0 ELSE Pow2(sh - 1)
      up   == /\ sh > 0
              /\ \/ rem > half
                 \/ rem = half /\ sticky
                 \/ rem = half /\ ~sticky /\ q % 2 = 1
  IN Only({ IF m1 = 0 THEN Zero
            ELSE IF m1 = Pow2(Prec)
                 THEN IF e1 + 1 > EMax THEN [k |-> "inf", m |-> s, e |-> 0]
                      ELSE [k |-> "num", m |-> s * Pow2(Prec - 1), e |-> e1 + 1]
            ELSE IF e1 > EMax THEN [k |-> "inf", m |-> s, e |-> 0]
            ELSE [k |-> "num", m |-> s * m1, e |-> e1]
            : m1 \in {IF up THEN q + 1 ELSE q} })

\* The value nearest to s * (M + f) * 2^E, where s is the sign, M >= 0 and
\* 0 < f < 1 when sticky, f = 0 otherwise: round to nearest, ties to even,
\* with gradual underflow and overflow to Infinity.
Round(s, M, E, sticky) ==
  IF M = 0 /\ ~sticky THEN Zero
  ELSE Only({ RoundAt(s, M, E, sticky, IF E + L - Prec < EMin THEN EMin ELSE E + L - Prec)
              : L \in {BitLen(M)} })

\* The number an integer literal denotes.
Num(i) == Round(Sgn(i), Abs(i), 0, FALSE)

\* ToNumber: null converts to 0 in arithmetic and comparisons.
ToNumber(x) == IF x.k = "null" THEN Zero ELSE x

IsFinite(x) == x.k = "num"

\* -1, 0, 1 for a number that is not NaN.
Sign(x) == Sgn(x.m)

Neg(x) == IF x.k = "nan" THEN x ELSE [x EXCEPT !.m = -x.m]

MulNum(a, b) ==
     IF a.k = "nan" \/ b.k = "nan" THEN NaN
     ELSE IF a.k = "inf" \/ b.k = "inf"
          THEN IF a.m = 0 \/ b.m = 0 THEN NaN
               ELSE [k |-> "inf", m |-> Sgn(a.m) * Sgn(b.m), e |-> 0]
     ELSE Round(Sgn(a.m) * Sgn(b.m), Abs(a.m) * Abs(b.m), a.e + b.e, FALSE)

\* a * b
Mul(x, y) == Only({ MulNum(a, b) : a \in {ToNumber(x)}, b \in {ToNumber(y)} })

\* A finite non-zero significand scaled up to exactly Prec bits.
Scaled(m) == Abs(m) * Pow2(Prec - BitLen(Abs(m)))

DivNum(a, b) ==
     IF a.k = "nan" \/ b.k = "nan" THEN NaN
     ELSE IF a.k = "inf"
          THEN IF b.k = "inf" THEN NaN
               ELSE [k |-> "inf", m |-> Sgn(a.m) * (IF b.m < 0 THEN -1 ELSE 1), e |-> 0]
     ELSE IF b.k = "inf" THEN Zero
     ELSE IF b.m = 0
          THEN IF a.m = 0 THEN NaN ELSE [k |-> "inf", m |-> Sgn(a.m), e |-> 0]
     ELSE IF a.m = 0 THEN Zero
     ELSE LET ma == Scaled(a.m)
              ea == a.e - (Prec - BitLen(Abs(a.m)))
              mb == Scaled(b.m)
              eb == b.e - (Prec - BitLen(Abs(b.m)))
              nn == ma * Pow2(Prec + 2)
          IN Round(Sgn(a.m) * Sgn(b.m), nn \div mb, ea - eb - (Prec + 2), nn % mb # 0)

\* a / b
Div(x, y) == Only({ DivNum(a, b) : a \in {ToNumber(x)}, b \in {ToNumber(y)} })

AddNum(a, b) ==
     IF a.k = "nan" \/ b.k = "nan" THEN NaN
     ELSE IF a.k = "inf"
          THEN IF b.k = "inf" /\ b.m # a.m THEN NaN ELSE a
     ELSE IF b.k = "inf" THEN b
     ELSE IF a.m = 0 THEN b
     ELSE IF b.m = 0 THEN a
     ELSE LET hi == IF a.e >= b.e THEN a ELSE b
              lo == IF a.e >= b.e THEN b ELSE a
              d  == hi.e - lo.e
          IN IF d <= Prec + 2
             THEN Only({ Round(Sgn(t), Abs(t), lo.e, FALSE) : t \in {hi.m * Pow2(d) + lo.m} })
             ELSE \* lo is below a quarter of hi's last place: it only breaks ties
                  LET big == Abs(hi.m) * Pow2(Prec + 2)
                      fl  == IF Sgn(lo.m) = Sgn(hi.m) THEN big ELSE big - 1
                  IN Round(Sgn(hi.m), fl, hi.e - (Prec + 2), TRUE)

\* a + b
Add(x, y) == Only({ AddNum(a, b) : a \in {ToNumber(x)}, b \in {ToNumber(y)} })

\* a - b
Sub(x, y) == Only({ AddNum(a, Neg(b)) : a \in {ToNumber(x)}, b \in {ToNumber(y)} })

\* isNaN(x)
isNaN(x) == ToNumber(x).k = "nan"

\* -1, 0, 1 as a is below, equal to or above b, neither being NaN.  Among
\* finite values of one sign the order is that of (e, |m|): a significand has
\* Prec bits unless e = EMin.
Cmp(a, b) ==
  IF Sign(a) # Sign(b) THEN Sgn(Sign(a) - Sign(b))
  ELSE IF Sign(a) = 0 THEN 0
  ELSE IF a.k = "inf" \/ b.k = "inf"
       THEN IF a.k = b.k THEN 0
            ELSE IF a.k = "inf" THEN Sign(a) ELSE -Sign(a)
  ELSE IF a.e # b.e THEN Sign(a) * Sgn(a.e - b.e)
  ELSE Sgn(a.m - b.m)

\* a < b; false when either is NaN
Lt(x, y) ==
  LET a == ToNumber(x)
      b == ToNumber(y)
  IN IF a.k = "nan" \/ b.k = "nan" THEN FALSE ELSE Cmp(a, b) < 0

\* a <= b; false when either is NaN
Le(x, y) ==
  LET a == ToNumber(x)
      b == ToNumber(y)
  IN IF a.k = "nan" \/ b.k = "nan" THEN FALSE ELSE Cmp(a, b) <= 0

\* a > b
Gt(x, y) == Lt(y, x)

\* Number.isInteger(x): no conversion, so null is not an integer.
isInteger(x) ==
  /\ x.k = "num"
  /\ \/ x.e >= 0
     \/ x.m % Pow2(-x.e) = 0

\* The integer a finite integral number denotes.
IntOf(x) == IF x.e >= 0 THEN x.m * Pow2(x.e) ELSE x.m \div Pow2(-x.e)

RECURSIVE PowNat(_, _)
PowNat(b, n) ==
  IF n = 0 THEN Num(1)
  ELSE Only({ IF n % 2 = 1 THEN Mul(Mul(h, h), b) ELSE Mul(h, h)
              : h \in {PowNat(b, n \div 2)} })

\* Math.pow(b, n) for a number n that is a non-negative integer; the value is
\* implementation-approximated: here by repeated squaring, each product rounded.
pow(b, n) ==
  IF isNaN(n) THEN NaN
  ELSE IF Sign(ToNumber(n)) = 0 THEN Num(1)
  ELSE IF isNaN(b) THEN NaN
  ELSE IF ~isInteger(ToNumber(n)) \/ Sign(n) < 0 THEN NaN
  ELSE Only({ PowNat(base, IntOf(ToNumber(n))) : base \in {ToNumber(b)} })

(***************************************************************************)
(* Text of the input fields.  A field holds a string; the model types the  *)
(* strings below.  parseFloat and parseInt read the longest numeric prefix *)
(* and give the nearest number (Infinity beyond the largest finite value), *)
(* or NaN when there is no such prefix.                                    *)
(***************************************************************************)

\* The decimal digits of 10^400, grouped by commas as the loan-amount field
\* formats them, and without the commas: a number beyond the largest finite one.
HugeFormatted == "1,000,...,000 (401 digits)"

HugeDigits == "1000...000 (401 digits)"

\* String.prototype.trim
trim(s) == IF s = " " THEN "" ELSE s

\* value.replace(/,/g, '')
StripCommas(s) ==
  CASE s = "1,000"   -> "1000"
    [] s = HugeFormatted -> HugeDigits
    [] OTHER         -> s

\* parseFloat(s)
parseFloat(s) ==
  CASE s = "-10"    -> Num(-10)
    [] s = "-1"     -> Num(-1)
    [] s = "0"      -> Num(0)
    [] s = "1"      -> Num(1)
    [] s = "50"     -> Num(50)
    [] s = "100"    -> Num(100)
    [] s = "150"    -> Num(150)
    [] s = "1000"   -> Num(1000)
    [] s = HugeDigits -> Infinity
    [] s = "1,000"  -> Num(1)
    [] s = HugeFormatted -> Num(1)
    [] OTHER        -> NaN

\* parseInt(s, 10): the leading integer digits only
parseInt(s) ==
  CASE s = "0"   -> Num(0)
    [] s = "1"   -> Num(1)
    [] s = "5"   -> Num(5)
    [] s = "1.5" -> Num(1)
    [] s = "12"  -> Num(12)
    [] OTHER     -> NaN

\* parseFormattedNumber(value)
parseFormattedNumber(value) == parseFloat(StripCommas(value))

(***************************************************************************)
(* The engine and the validation.                                          *)
(***************************************************************************)

\* x === 0
IsZero(x) == x.k = "num" /\ x.m = 0

\* calculateMortgage taking the annual percentage for a fraction: the rate is
\* divided by 12 only.
calculateMortgage_RateNotPercent(principal, annualRate, years) ==
  LET monthlyRate      == Div(annualRate, Num(12))
      numberOfPayments == Mul(years, Num(12))
      monthlyPayment   ==
        IF IsZero(monthlyRate)
        THEN Div(principal, numberOfPayments)
        ELSE LET compoundFactor == pow(Add(Num(1), monthlyRate), numberOfPayments)
             IN Div(Mul(principal, Mul(monthlyRate, compoundFactor)),
                    Sub(compoundFactor, Num(1)))
      totalAmount      == Mul(monthlyPayment, numberOfPayments)
      totalInterest    == Sub(totalAmount, principal)
  IN [monthlyPayment |-> monthlyPayment,
      totalInterest  |-> totalInterest,
      totalAmount    |-> totalAmount]

calculateMortgage(principal, annualRate, years) ==
  LET monthlyRate      == Div(Div(annualRate, Num(100)), Num(12))
      numberOfPayments == Mul(years, Num(12))
      monthlyPayment   ==
        IF IsZero(monthlyRate)
        THEN Div(principal, numberOfPayments)
        ELSE LET compoundFactor == pow(Add(Num(1), monthlyRate), numberOfPayments)
             IN Div(Mul(principal, Mul(monthlyRate, compoundFactor)),
                    Sub(compoundFactor, Num(1)))
      totalAmount      == Mul(monthlyPayment, numberOfPayments)
      totalInterest    == Sub(totalAmount, principal)
  IN [monthlyPayment |-> monthlyPayment,
      totalInterest  |-> totalInterest,
      totalAmount    |-> totalAmount]

MsgRate == "Please enter a valid interest rate (0 or greater)"

MsgAmount == "Please enter a valid loan amount (greater than 0)"

MsgDuration == "Please enter a valid loan duration (whole number of years, greater than 0)"

MsgTooHigh == "Interest rate seems too high. Please enter a rate between 0 and 100%"

MsgFees == "Please enter a valid lot fees amount (0 or greater)"

MsgCalcFirst == "Please calculate a mortgage first before adding to comparison"

\* The null that validateInputs returns for valid inputs.
NoError == "null"

\* validateInputs with the upper limit of the rate tested together with its
\* lower limit, before the amount and the duration.
validateInputs_RateLimitFirst(interestRate, loanAmount, loanDuration, lotFees) ==
  IF isNaN(interestRate) \/ Lt(interestRate, Num(0)) THEN MsgRate
  ELSE IF Gt(interestRate, Num(100)) THEN MsgTooHigh
  ELSE IF isNaN(loanAmount) \/ Le(loanAmount, Num(0)) THEN MsgAmount
  ELSE IF isNaN(loanDuration) \/ Le(loanDuration, Num(0)) \/ ~isInteger(loanDuration)
       THEN MsgDuration
  ELSE IF isNaN(lotFees) \/ Lt(lotFees, Num(0)) THEN MsgFees
  ELSE NoError

validateInputs(interestRate, loanAmount, loanDuration, lotFees) ==
  IF isNaN(interestRate) \/ Lt(interestRate, Num(0)) THEN MsgRate
  ELSE IF isNaN(loanAmount) \/ Le(loanAmount, Num(0)) THEN MsgAmount
  ELSE IF isNaN(loanDuration) \/ Le(loanDuration, Num(0)) \/ ~isInteger(loanDuration)
       THEN MsgDuration
  ELSE IF Gt(interestRate, Num(100)) THEN MsgTooHigh
  ELSE IF isNaN(lotFees) \/ Lt(lotFees, Num(0)) THEN MsgFees
  ELSE NoError

\* The results object both handlers build from the engine's result and the fees.
WithLotFees(mortgageResults, loanDuration, lotFees) ==
  LET monthlyPaymentWithLotFees == Add(mortgageResults.monthlyPayment, lotFees)
      numberOfPayments          == Mul(loanDuration, Num(12))
  IN [monthlyPayment |-> monthlyPaymentWithLotFees,
      totalInterest  |-> mortgageResults.totalInterest,
      totalAmount    |-> Mul(monthlyPaymentWithLotFees, numberOfPayments)]

(***************************************************************************)
(* JSON.  The text JSON.stringify writes for the inputs object is the      *)
(* sequence of its four values in key order, a value that is not finite    *)
(* being written as null; a finite number is written with the digits that  *)
(* read back as the same number.  undefined is the absent data attribute.  *)
(***************************************************************************)

undefined == << >>

JSONstringify(inputs) ==
  LET tok(v) == IF IsFinite(v) THEN v ELSE null
  IN << tok(inputs.interestRate), tok(inputs.loanAmount),
        tok(inputs.loanDuration), tok(inputs.lotFees) >>

JSONparse(text) ==
  [interestRate |-> text[1], loanAmount |-> text[2],
   loanDuration |-> text[3], lotFees |-> text[4]]

\* v || 0
OrZero(v) == IF v.k = "null" \/ v.k = "nan" \/ IsZero(v) THEN Num(0) ELSE v

VARIABLES
  comparisonMortgages,  \* the comparison store
  now,                  \* the reading Date.now() gives
  errorText,            \* #errorMessage: textContent
  errorVisible,         \* #errorMessage has class "visible"
  resultsVisible,       \* #results has class "visible"
  shownResults,         \* the results object whose fields #results shows
  datasetInputs,        \* #results: dataset.inputs
  comparisonVisible,    \* #comparisonSection has class "visible"
  comparisonRows,       \* data-id of the rows of #comparisonTableBody
  lastValidated,        \* history: inputs of the last calculate that passed validation
  issuedIds,            \* history: every id an added entry was given
  lastEvent,            \* history: the last handler that ran
  args,                 \* arguments of a call of the core functions
  verdict,              \* what validateInputs returned for args
  result,               \* what calculateMortgage returned for args
  pc                    \* position of that call

vars == << comparisonMortgages, now, errorText, errorVisible, resultsVisible,
           shownResults, datasetInputs, comparisonVisible, comparisonRows,
           lastValidated, issuedIds, lastEvent, args, verdict, result, pc >>

uiVars == << comparisonMortgages, now, errorText, errorVisible, resultsVisible,
             shownResults, datasetInputs, comparisonVisible, comparisonRows,
             lastValidated, issuedIds, lastEvent >>

coreVars == << args, verdict, result, pc >>

\* Most entries the store holds in the model.
MaxEntries == 2
\* Last clock reading of the model.
MaxClock == 1

NoResults == [monthlyPayment |-> NaN, totalInterest |-> NaN, totalAmount |-> NaN]

NoArgs == [interestRate |-> NaN, loanAmount |-> NaN, loanDuration |-> NaN, lotFees |-> NaN]

\* The contents of the four fields (rate, amount, duration, fees) the model
\* types: valid ones, with and without fees and with an amount beyond the
\* largest finite number, and one failing each check of validateInputs.
FieldTexts ==
  { << "100", "1,000", "5", "50" >>,
    << "100", "1,000", "5", " " >>,
    << "100", HugeFormatted, "5", "50" >>,
    << "", "1,000", "5", "50" >>,
    << "150", "0", "5", "50" >>,
    << "100", "1,000", "", "50" >>,
    << "150", "1,000", "5", " " >>,
    << "100", "1,000", "5", "-10" >> }

\* op: the handler; id: the id it was given (remove) or gave (add); removed:
\* how many entries it took from the store; engine: whether it called
\* calculateMortgage.
Event(op, id, removed, engine) ==
  [op |-> op, id |-> id, removed |-> removed, engine |-> engine]

UIInit ==
  /\ comparisonMortgages = << >>
  /\ now = 0
  /\ errorText = ""
  /\ errorVisible = FALSE
  /\ resultsVisible = FALSE
  /\ shownResults = NoResults
  /\ datasetInputs = undefined
  /\ comparisonVisible = FALSE
  /\ comparisonRows = << >>
  /\ lastValidated = NoArgs
  /\ issuedIds = {}
  /\ lastEvent = Event("none", -1, 0, FALSE)

CoreIdle ==
  /\ args = NoArgs
  /\ verdict = NoError
  /\ result = NoResults
  /\ pc = "idle"

Init == UIInit /\ CoreIdle

\* showError that leaves the results panel as it is.
showError_KeepResults(message) ==
  /\ errorText' = message
  /\ errorVisible' = TRUE
  /\ resultsVisible' = resultsVisible

\* showError(message)
showError(message) ==
  /\ errorText' = message
  /\ errorVisible' = TRUE
  /\ resultsVisible' = FALSE

\* updateComparisonDisplay() for the store as it will be
updateComparisonDisplay(store) ==
  IF Len(store) = 0
  THEN /\ comparisonVisible' = FALSE
       /\ UNCHANGED comparisonRows
  ELSE /\ comparisonVisible' = TRUE
       /\ comparisonRows' = [i \in 1..Len(store) |-> store[i].id]

\* The numbers handleCalculate() parses from the texts t of the four fields.
Parsed(t) ==
  [interestRate |-> parseFloat(t[1]),
   loanAmount   |-> parseFormattedNumber(t[2]),
   loanDuration |-> parseInt(t[3]),
   lotFees      |-> IF trim(t[4]) = "" THEN Num(0) ELSE parseFormattedNumber(trim(t[4]))]

\* validateInputs applied to an inputs object
ErrorOf(inputs) ==
  validateInputs(inputs.interestRate, inputs.loanAmount, inputs.loanDuration, inputs.lotFees)

\* The results object built from the engine's result for the inputs and lotFees.
ResultsOf(inputs, lotFees) ==
  WithLotFees(calculateMortgage(inputs.loanAmount, inputs.interestRate, inputs.loanDuration),
              inputs.loanDuration, lotFees)

\* What handleCalculate() computes from the parsed inputs: the validation
\* error or, without one, the results and inputs it displays.
Outcome(inputs) ==
  [error   |-> ErrorOf(inputs),
   results |-> IF ErrorOf(inputs) # NoError THEN NoResults
               ELSE ResultsOf(inputs, inputs.lotFees),
   inputs  |-> inputs]

Calculated(t) == Outcome(Parsed(t))

\* Calculated, evaluated once for every content of the fields.
CalculatedTable ==
  { [texts |-> t, calc |-> Calculated(t)] : t \in FieldTexts }

CalculatedFor(t) == (CHOOSE row \in CalculatedTable : row.texts = t).calc

\* handleCalculate() with the four fields holding the texts t
handleCalculate(t) ==
  \E c \in {CalculatedFor(t)} :
     IF c.error # NoError
     THEN /\ showError(c.error)
          /\ lastEvent' = Event("calculate", -1, 0, FALSE)
          /\ UNCHANGED << comparisonMortgages, now, shownResults, datasetInputs,
                          comparisonVisible, comparisonRows, lastValidated, issuedIds >>
     ELSE /\ errorVisible' = FALSE
          /\ lastEvent' = Event("calculate", -1, 0, TRUE)
          /\ shownResults' = c.results
          /\ resultsVisible' = TRUE
          /\ datasetInputs' = JSONstringify(c.inputs)
          /\ lastValidated' = c.inputs
          /\ UNCHANGED << comparisonMortgages, now, errorText, comparisonVisible,
                          comparisonRows, issuedIds >>

HandleCalculate ==
  \E t \in FieldTexts : handleCalculate(t) /\ UNCHANGED coreVars

\* The entry addToComparison builds from the parsed inputs at clock reading t.
NewEntry(inputs, t) ==
  Only({ [id             |-> t,
          interestRate   |-> inputs.interestRate,
          loanAmount     |-> inputs.loanAmount,
          loanDuration   |-> inputs.loanDuration,
          lotFees        |-> OrZero(inputs.lotFees),
          monthlyPayment |-> results.monthlyPayment,
          totalInterest  |-> results.totalInterest,
          totalAmount    |-> results.totalAmount]
         : results \in {ResultsOf(inputs, OrZero(inputs.lotFees))} })

\* The JSON texts handleCalculate can leave in dataset.inputs.
InputsTexts ==
  { JSONstringify(row.calc.inputs) : row \in {r \in CalculatedTable : r.calc.error = NoError} }

\* NewEntry, evaluated once for every such text (at clock reading 0).
NewEntryTable ==
  { [text |-> text, entry |-> NewEntry(JSONparse(text), 0)] : text \in InputsTexts }

NewEntryFor(text, t) ==
  [(CHOOSE row \in NewEntryTable : row.text = text).entry EXCEPT !.id = t]

\* addToComparison()
addToComparison ==
  LET inputsJson == datasetInputs
  IN IF inputsJson = undefined
     THEN /\ showError(MsgCalcFirst)
          /\ lastEvent' = Event("add", -1, 0, FALSE)
          /\ UNCHANGED << comparisonMortgages, now, shownResults, datasetInputs,
                          comparisonVisible, comparisonRows, lastValidated, issuedIds >>
     ELSE \E entry \in {NewEntryFor(inputsJson, now)} :
             /\ Len(comparisonMortgages) < MaxEntries
             /\ comparisonMortgages' = Append(comparisonMortgages, entry)
             /\ updateComparisonDisplay(comparisonMortgages')
             /\ errorVisible' = FALSE
             /\ issuedIds' = issuedIds \cup {entry.id}
             /\ lastEvent' = Event("add", entry.id, 0, TRUE)
             /\ UNCHANGED << now, errorText, resultsVisible, shownResults,
                             datasetInputs, lastValidated >>

AddToComparison == addToComparison /\ UNCHANGED coreVars

\* The filter with === for !==: it keeps the entries that carry the id.
WithoutId_Matching(store, id) ==
  LET keep(entry) == entry.id = id
  IN SelectSeq(store, keep)

\* comparisonMortgages.filter(entry => entry.id !== id)
WithoutId(store, id) ==
  LET keep(entry) == entry.id # id
  IN SelectSeq(store, keep)

\* removeFromComparison(id)
removeFromComparison(id) ==
  /\ comparisonMortgages' = WithoutId(comparisonMortgages, id)
  /\ updateComparisonDisplay(comparisonMortgages')
  /\ lastEvent' = Event("remove", id, Len(comparisonMortgages) - Len(comparisonMortgages'), FALSE)
  /\ UNCHANGED << now, errorText, errorVisible, resultsVisible, shownResults,
                  datasetInputs, lastValidated, issuedIds >>

\* A call of removeFromComparison: with the id of a row's button, or with an
\* id no entry carries (MaxClock + 1 is never issued).
RemoveFromComparison ==
  \E id \in 0..(MaxClock + 1) :
    removeFromComparison(id) /\ UNCHANGED coreVars

\* The clock moves on between two events.
Tick ==
  /\ now < MaxClock
  /\ now' = now + 1
  /\ UNCHANGED << comparisonMortgages, errorText, errorVisible, resultsVisible,
                  shownResults, datasetInputs, comparisonVisible, comparisonRows,
                  lastValidated, issuedIds, lastEvent >>
  /\ UNCHANGED coreVars

Next == HandleCalculate \/ AddToComparison \/ RemoveFromComparison \/ Tick

Spec == Init /\ [][Next]_vars

(***************************************************************************)
(* The core functions on their own: validateInputs, then calculateMortgage *)
(* for arguments validateInputs accepted, over arguments of every kind.    *)
(***************************************************************************)

CoreRates == {NaN, Num(-1), Num(0), Num(1), Num(5), Num(100), Num(150)}

CoreAmounts == {NaN, Num(-5), Num(0), Num(250), Num(1000), Infinity}

CoreDurations == {NaN, Num(0), Num(1), Div(Num(3), Num(2)), Num(5), Num(12)}

CoreFees == {NaN, Num(-10), Num(0), Num(50), Infinity}

InitCore ==
  /\ UIInit
  /\ args \in [interestRate : CoreRates, loanAmount : CoreAmounts,
               loanDuration : CoreDurations, lotFees : CoreFees]
  /\ verdict = NoError
  /\ result = NoResults
  /\ pc = "start"

\* validateInputs(args)
Validate ==
  /\ pc = "start"
  /\ verdict' = ErrorOf(args)
  /\ pc' = "validated"
  /\ UNCHANGED << args, result >>
  /\ UNCHANGED uiVars

\* calculateMortgage(args), which the handlers call only without an error
Calculate ==
  /\ pc = "validated"
  /\ verdict = NoError
  /\ result' = calculateMortgage(args.loanAmount, args.interestRate, args.loanDuration)
  /\ pc' = "calculated"
  /\ UNCHANGED << args, verdict >>
  /\ UNCHANGED uiVars

NextCore == Validate \/ Calculate

SpecCore == InitCore /\ [][NextCore]_vars

(***************************************************************************)
(* Properties.                                                             *)
(***************************************************************************)

Ids(store) == { store[i].id : i \in 1..Len(store) }

Last(store) == store[Len(store)]

RemoveAt(store, i) == SubSeq(store, 1, i - 1) \o SubSeq(store, i + 1, Len(store))

InputsOf(entry) ==
  [interestRate |-> entry.interestRate, loanAmount |-> entry.loanAmount,
   loanDuration |-> entry.loanDuration, lotFees |-> entry.lotFees]

ResultsIn(entry) ==
  [monthlyPayment |-> entry.monthlyPayment, totalInterest |-> entry.totalInterest,
   totalAmount |-> entry.totalAmount]

\* The last handler was an addToComparison that appended an entry.
JustAdded == lastEvent.op = "add" /\ lastEvent.engine

\* C1: the store never holds two entries with the same id, and the id an add
\* gives is the id of no entry added earlier (removed ones included), also
\* when two adds read the same clock value.
C1_UniqueIds ==
  /\ [](\A i, j \in 1..Len(comparisonMortgages) :
          i # j => comparisonMortgages[i].id # comparisonMortgages[j].id)
  /\ [][(AddToComparison /\ datasetInputs # undefined)
          => Last(comparisonMortgages').id \notin issuedIds]_vars

\* The checks of validateInputs as the specification numbers them.
Check(i, a) ==
  CASE i = 1 -> ~isNaN(a.interestRate) /\ Le(Num(0), a.interestRate)
    [] i = 2 -> ~isNaN(a.loanAmount) /\ Gt(a.loanAmount, Num(0))
    [] i = 3 -> isInteger(a.loanDuration) /\ Gt(a.loanDuration, Num(0))
    [] i = 4 -> Le(a.interestRate, Num(100))
    [] i = 5 -> ~isNaN(a.lotFees) /\ Le(Num(0), a.lotFees)

Message(i) ==
  CASE i = 1 -> MsgRate
    [] i = 2 -> MsgAmount
    [] i = 3 -> MsgDuration
    [] i = 4 -> MsgTooHigh
    [] i = 5 -> MsgFees

Failing(a) == { i \in 1..5 : ~Check(i, a) }

FirstFailing(a) == CHOOSE i \in Failing(a) : \A j \in Failing(a) : i <= j

\* C2: validateInputs returns the message of the lowest-numbered failing
\* check among (1) rate a number >= 0, (2) amount a number > 0, (3) duration
\* a positive integer, (4) rate <= 100, (5) fees a number >= 0, and null
\* exactly when all five pass.
C2_FirstFailingCheck ==
  pc \in {"validated", "calculated"} =>
    verdict = IF Failing(args) = {} THEN NoError ELSE Message(FirstFailing(args))

\* C2, its case: a rate above 100 together with an amount that is not
\* positive has been validated, and the message is that of the amount.
C2_Witness ==
  /\ pc = "validated"
  /\ Gt(args.interestRate, Num(100))
  /\ Le(args.loanAmount, Num(0))
  /\ verdict = MsgAmount

\* C3: removeFromComparison(id) of an id the store holds deletes one entry,
\* the one with that id, and leaves every other entry in place, unmodified
\* and in the same order.
C3_RemoveExactlyOne ==
  [][\A id \in 0..(MaxClock + 1) :
       (removeFromComparison(id) /\ id \in Ids(comparisonMortgages))
         => \E i \in 1..Len(comparisonMortgages) :
              /\ comparisonMortgages[i].id = id
              /\ comparisonMortgages' = RemoveAt(comparisonMortgages, i)]_vars

\* C4: removeFromComparison(id) of an id no stored entry carries leaves the
\* sequence of entries as it is and shows no error, whatever the store holds.
C4_UnknownIdNoOp ==
  [][\A id \in 0..(MaxClock + 1) :
       (removeFromComparison(id) /\ id \notin Ids(comparisonMortgages))
         => /\ comparisonMortgages' = comparisonMortgages
            /\ errorVisible' = errorVisible
            /\ errorText' = errorText]_vars

\* C4, its case: a remove has run on a store holding entries and took none.
C4_Witness ==
  /\ lastEvent.op = "remove"
  /\ lastEvent.removed = 0
  /\ Len(comparisonMortgages) > 0

\* The fee composition of a result res for the inputs: base payment plus
\* fees, that sum times the number of payments, and the fee-free interest.
Composed(res, inputs) ==
  \E base \in {calculateMortgage(inputs.loanAmount, inputs.interestRate, inputs.loanDuration)} :
    /\ res.monthlyPayment = Add(base.monthlyPayment, inputs.lotFees)
    /\ res.totalAmount = Mul(Add(base.monthlyPayment, inputs.lotFees),
                             Mul(inputs.loanDuration, Num(12)))
    /\ res.totalInterest = base.totalInterest

\* C5: for the validated inputs, the result handleCalculate displays and the
\* result addToComparison stores are both the fee composition of the engine's
\* result for those inputs.
C5_FeeComposition ==
  /\ resultsVisible => Composed(shownResults, lastValidated)
  /\ JustAdded => Composed(ResultsIn(Last(comparisonMortgages)), lastValidated)

\* C6: every stored entry's results are those recomputed from its own stored
\* inputs, and so are the results displayed by the calculation that produced
\* them; no entry changes after it is added.
C6_StoredConsistent ==
  /\ [](\A i \in 1..Len(comparisonMortgages) :
          ResultsIn(comparisonMortgages[i])
            = ResultsOf(comparisonMortgages[i], comparisonMortgages[i].lotFees))
  /\ [](JustAdded => ResultsIn(Last(comparisonMortgages)) = shownResults)
  /\ [][\A i \in 1..Len(comparisonMortgages') :
          \/ \E j \in 1..Len(comparisonMortgages) :
               comparisonMortgages'[i] = comparisonMortgages[j]
          \/ AddToComparison /\ i = Len(comparisonMortgages')]_vars

\* C7: add appends nothing and shows an error while no calculate has passed
\* validation; otherwise it appends one entry whose inputs are those of the
\* last calculate that passed validation; so every stored entry's inputs
\* pass validateInputs.
C7_AddAfterCalculate ==
  /\ [][AddToComparison =>
          IF lastValidated = NoArgs
          THEN /\ comparisonMortgages' = comparisonMortgages
               /\ errorVisible'
               /\ errorText' = MsgCalcFirst
          ELSE /\ Len(comparisonMortgages') = Len(comparisonMortgages) + 1
               /\ SubSeq(comparisonMortgages', 1, Len(comparisonMortgages))
                    = comparisonMortgages
               /\ InputsOf(Last(comparisonMortgages')) = lastValidated]_vars
  /\ [](\A i \in 1..Len(comparisonMortgages) :
          ErrorOf(comparisonMortgages[i]) = NoError)

\* The formulas of the engine, each operation rounded, for the result res of
\* calculateMortgage(p, rate, years).
Formulas(res, p, rate, years) ==
  \E n \in {Mul(years, Num(12))}, r \in {Div(Div(rate, Num(100)), Num(12))} :
    /\ res.totalAmount = Mul(res.monthlyPayment, n)
    /\ res.totalInterest = Sub(res.totalAmount, p)
    /\ IF IsZero(r)
       THEN res.monthlyPayment = Div(p, n)
       ELSE \E cf \in {pow(Add(Num(1), r), n)} :
              res.monthlyPayment = Div(Mul(p, Mul(r, cf)), Sub(cf, Num(1)))

ZeroRatePath(rate) == IsZero(Div(Div(rate, Num(100)), Num(12)))

\* A finite value with a full significand (not subnormal).
Normal(x) == x.k = "num" /\ Abs(x.m) >= Pow2(Prec - 1)

\* |x - y| <= 3 * 2^(-Prec) * |y| for finite x and y: x is y up to two roundings.
WithinTwoRoundings(x, y) ==
  \E e0 \in {IF x.e < y.e THEN x.e ELSE y.e} :
    Abs(x.m * Pow2(x.e - e0) - y.m * Pow2(y.e - e0)) * Pow2(Prec)
      <= 3 * Abs(y.m * Pow2(y.e - e0))

C9_FiniteResults ==
  (pc = "calculated" /\ IsFinite(args.loanAmount)) =>
    /\ IsFinite(result.monthlyPayment)
    /\ IsFinite(result.totalInterest)
    /\ IsFinite(result.totalAmount)
    /\ ~IsZero(Mul(args.loanDuration, Num(12)))
    /\ \E r \in {Div(Div(args.interestRate, Num(100)), Num(12))} :
         ~IsZero(r) => ~IsZero(Sub(pow(Add(Num(1), r), Mul(args.loanDuration, Num(12))), Num(1)))

\* What validateInputs returns for the numbers parsed from the texts t.
ErrorTable == { [texts |-> t, error |-> ErrorOf(Parsed(t))] : t \in FieldTexts }

ErrorFor(t) == (CHOOSE row \in ErrorTable : row.texts = t).error

\* C10: a calculate whose inputs fail validation does not call the engine,
\* shows the new message, hides the results and leaves the store and the
\* remembered inputs alone; one whose inputs pass clears the error and shows
\* the results; the error and the results are never both visible.
C10_ValidationGate ==
  /\ [](~(errorVisible /\ resultsVisible))
  /\ [][\A t \in FieldTexts :
          handleCalculate(t) =>
            IF ErrorFor(t) # NoError
            THEN /\ ~lastEvent'.engine
                 /\ errorVisible'
                 /\ errorText' = ErrorFor(t)
                 /\ ~resultsVisible'
                 /\ UNCHANGED << comparisonMortgages, datasetInputs, lastValidated >>
            ELSE /\ lastEvent'.engine
                 /\ ~errorVisible'
                 /\ resultsVisible']_vars

\* C10, its case: a calculate has failed validation after an earlier one
\* passed, with entries in the store.
C10_Witness ==
  /\ lastEvent.op = "calculate"
  /\ ~lastEvent.engine
  /\ errorVisible
  /\ errorText # MsgCalcFirst
  /\ lastValidated # NoArgs
  /\ Len(comparisonMortgages) > 0

====
